---- MODULE Spec2Model ----
(***************************************************************************)
(* The songs / playlists / favorites backend, in its two variants:         *)
(*   server.py          handlers S_...  (public string identifier "id")    *)
(*   Functions/main.py  handlers M_...  (storage identifier "_id")         *)
(* Every store call (find_one, insert_one, update_one, delete_one) is one  *)
(* atomic step; the code a handler runs between two awaits belongs to the  *)
(* step of the store call that precedes it.                                *)
(***************************************************************************)
EXTENDS Integers, Sequences, FiniteSets, TLC

VARIABLES songs, playlists, favorites, nextId, started, pc, req, loc, resp, obs

vars == <<songs, playlists, favorites, nextId, started, pc, req, loc, resp, obs>>

store == <<songs, playlists, favorites>>

\* ---------------------------------------------------------------- bounds
\* documents inserted into each collection in one run
MaxSongs == 2
MaxPlaylists == 2
\* requests other than POST /songs and POST /playlists started in one run
MaxRequests == 2

\* request slots: the handlers that can be in flight at the same time
Procs == {"r1", "r2"}

\* ------------------------------------------------------------ identifiers
\* The n-th identifier generated for collection c. Generated identifiers are
\* unique across collections.
\* str(uuid.uuid4()): a string that is no 24-digit hexadecimal number
Uuid(c, n) == [kind |-> "uuid", c |-> c, n |-> n]
\* the storage identifier the store gives an inserted document
NewObjectId(c, n) == [c |-> c, n |-> n]
\* the 24 hexadecimal digits of a storage identifier, written in lower case
\* (kind "hex") or in upper case (kind "HEX")
Hex(o, kind) == [kind |-> kind, c |-> o.c, n |-> o.n]

\* bson.ObjectId(s): the identifier a 24-digit hexadecimal string spells, in
\* either case; any other string raises InvalidId
ValidObjectId(s) == s.kind \in {"hex", "HEX"}
ObjectId(s) == [c |-> s.c, n |-> s.n]
\* str(ObjectId): always the lower-case digits
StrOfObjectId(o) == Hex(o, "hex")

\* ------------------------------------------------------------- documents
None == << >>
Some(d) == << d >>

Without(d, k) == [x \in (DOMAIN d) \ {k} |-> d[x]]
With(d, k, v) == [x \in (DOMAIN d) \cup {k} |-> IF x = k THEN v ELSE d[x]]
Restrict(d, ks) == [x \in (DOMAIN d) \cap ks |-> d[x]]

SongFields == {"id", "title", "artist", "album", "duration", "cover_url",
               "audio_url", "created_at"}
PlaylistFields == {"id", "name", "description", "cover_url", "song_ids",
                   "created_at"}
FavoriteFields == {"id", "song_id", "created_at"}

\* the request body of POST /songs the model draws from
SongCreate ==
    { [title |-> "A", artist |-> "B", album |-> "C", duration |-> 120,
       cover_url |-> "x", audio_url |-> "y"] }

\* the request body of POST /playlists the model draws from
PlaylistCreate ==
    { [name |-> "P", description |-> "", cover_url |-> "z"] }

\* Song(**input.model_dump()).model_dump(): the input plus a generated id and
\* a creation time (one abstract instant "ts")
Song(input, n) == With(With(input, "id", Uuid("songs", n)), "created_at", "ts")
Playlist(input, n) ==
    With(With(With(input, "id", Uuid("playlists", n)), "song_ids", << >>),
         "created_at", "ts")
Favorite(song_id, n) ==
    [id |-> Uuid("favorites", n), song_id |-> song_id, created_at |-> "ts"]

\* ------------------------------------------------------------ store calls
Min(S) == CHOOSE x \in S : \A y \in S : x <= y

\* a filter {field: value, ...} matches the documents that hold those values
Matches(doc, filter) == \A k \in DOMAIN filter : doc[k] = filter[k]

\* collection.find_one(filter): the first matching document, or None
find_one(coll, filter) ==
    LET idx == {i \in DOMAIN coll : Matches(coll[i], filter)}
    IN  IF idx = {} THEN None ELSE Some(coll[Min(idx)])

\* collection.find({field: {"$in": values}}).to_list(n): the matching
\* documents in stored order
find(coll, field, values) == SelectSeq(coll, LAMBDA d : d[field] \in values)

\* collection.insert_one(doc): the store adds its own _id to the document
insert_one(coll, doc, oid) == Append(coll, With(doc, "_id", oid))

\* the projection {"_id": 0}
NoId(opt) == IF opt = None THEN None ELSE Some(Without(opt[1], "_id"))

\* delete_one(filter): removes the first matching document
delete_one(coll, filter) ==
    LET idx == {i \in DOMAIN coll : Matches(coll[i], filter)}
    IN  IF idx = {} THEN coll
        ELSE LET k == Min(idx)
             IN  [i \in 1..(Len(coll) - 1) |-> IF i < k THEN coll[i] ELSE coll[i + 1]]

\* {"$push": {"song_ids": v}}
Push(doc, v) == [doc EXCEPT !.song_ids = Append(@, v)]
\* {"$pull": {"song_ids": v}}: removes every occurrence of v
Pull(doc, v) == [doc EXCEPT !.song_ids = SelectSeq(@, LAMBDA x : x # v)]

\* update_one(filter, update): applies the update, {"$push": {"song_ids": v}}
\* or {"$pull": {"song_ids": v}}, to the first matching document
update_one(coll, filter, update) ==
    LET idx == {i \in DOMAIN coll : Matches(coll[i], filter)}
    IN  IF idx = {} THEN coll
        ELSE [coll EXCEPT ![Min(idx)] =
                 IF update.op = "$push" THEN Push(@, update.song_ids)
                                        ELSE Pull(@, update.song_ids)]

InSeq(x, s) == \E i \in DOMAIN s : s[i] = x

\* ------------------------------------------------------- request machinery
NoLocals == [playlist |-> None, song |-> None]
NoPre == [playlist |-> FALSE, song |-> FALSE, member |-> FALSE, favorite |-> FALSE,
          no_playlist |-> TRUE, no_song |-> TRUE]

InFlight(q) == pc[q] # "idle"

Fresh(c) == NewObjectId(c, nextId[c])
Bump(c) == nextId' = [nextId EXCEPT ![c] = @ + 1]

\* The slot a new request takes: the first free one.
Rank(q) == IF q = "r1" THEN 1 ELSE 2
Slot(q) ==
    /\ pc[q] = "idle"
    /\ \A p \in Procs : Rank(p) < Rank(q) => InFlight(p)

\* a request that counts against MaxRequests can begin in slot q
CanBegin(q) == Slot(q) /\ started < MaxRequests
\* POST /songs and POST /playlists are bounded by MaxSongs and MaxPlaylists
CanBeginCreate(q) == Slot(q)

\* What is on record of a request: whether it ran with no other request in
\* flight, whether one of its steps changed the store, what held of its
\* arguments on arrival, and the request that ran just before it when the two
\* belong together (prior). The record of a finished request is kept until
\* the next request arrives: while it is there, no request has arrived since.
NoPrior == [link |-> "none"]
NoObs == [alone |-> TRUE, wrote |-> FALSE, pre |-> NoPre, prior |-> NoPrior]
NoReq == [op |-> "none"]
NoResp == [status |-> 0, body |-> [message |-> ""]]

\* how a request r follows the request r0 that was answered with resp0
Link(r0, resp0, r) ==
    IF r.op = r0.op /\ r = r0 THEN "repeat"
    ELSE IF /\ r0.op = "create_song" /\ r.op = "get_song"
            /\ r.song_id = resp0.body.id THEN "get_created"
    ELSE IF /\ r0.op = "create_playlist" /\ r.op = "get_playlist"
            /\ r.playlist_id = resp0.body.id THEN "get_created"
    ELSE IF /\ r0.op = "delete_playlist" /\ r.op = "get_playlist"
            /\ r.playlist_id = r0.playlist_id THEN "get_deleted"
    ELSE IF /\ r0.op = "add_song_to_playlist" /\ r.op = "get_playlist_songs"
            /\ r.playlist_id = r0.playlist_id THEN "list_added"
    ELSE "none"

\* the request that ran, alone, just before r arrives, when r follows it
Prior(r) ==
    LET last == {p \in Procs : req[p].op # "none" /\ obs[p].alone}
    IN  IF (\E p \in Procs : InFlight(p)) \/ last = {} THEN NoPrior
        ELSE LET p == CHOOSE x \in last : TRUE
                 link == Link(req[p], resp[p], r)
             IN  IF link = "none" THEN NoPrior
                 ELSE [link |-> link, req |-> req[p], resp |-> resp[p],
                       pre |-> obs[p].pre]

\* A request arrives in slot q: the last conjunct of a handler's first step,
\* after the step's effect on the store.
Arrive(q, r, pre, n) ==
    /\ started' = started + n
    /\ req' = [p \in Procs |->
                 IF p = q THEN r ELSE IF InFlight(p) THEN req[p] ELSE NoReq]
    /\ obs' = [p \in Procs |->
                 IF p = q
                 THEN [alone |-> \A o \in Procs \ {q} : ~InFlight(o),
                       wrote |-> store' # store,
                       pre |-> pre,
                       prior |-> Prior(r)]
                 ELSE IF InFlight(p) THEN [obs[p] EXCEPT !.alone = FALSE]
                 ELSE NoObs]

Begin(q, r, pre) == Arrive(q, r, pre, 1)
BeginCreate(q, r) == Arrive(q, r, NoPre, 0)

\* a later step of the request in slot q
Step(q) ==
    /\ obs' = [obs EXCEPT ![q].wrote = @ \/ store' # store]
    /\ UNCHANGED <<started, req>>

\* the responses on record after a step of slot q: an arrival drops those of
\* the finished requests
Kept(q) ==
    IF InFlight(q) THEN resp
    ELSE [p \in Procs |-> NoResp]

\* the handler returns or raises: the response goes out
Respond(q, status, body) ==
    /\ pc' = [pc EXCEPT ![q] = "idle"]
    /\ resp' = [Kept(q) EXCEPT ![q] = [status |-> status, body |-> body]]
    /\ loc' = [loc EXCEPT ![q] = NoLocals]

\* the handler awaits its next store call
Await(q, label, locals) ==
    /\ pc' = [pc EXCEPT ![q] = label]
    /\ loc' = [loc EXCEPT ![q] = locals]
    /\ resp' = Kept(q)

Detail(msg) == [detail |-> msg]
Message(msg) == [message |-> msg]

Init ==
    /\ songs = << >>
    /\ playlists = << >>
    /\ favorites = << >>
    /\ nextId = [songs |-> 1, playlists |-> 1, favorites |-> 1]
    /\ started = 0
    /\ pc = [q \in Procs |-> "idle"]
    /\ req = [q \in Procs |-> NoReq]
    /\ loc = [q \in Procs |-> NoLocals]
    /\ resp = [q \in Procs |-> NoResp]
    /\ obs = [q \in Procs |-> NoObs]

\* the string s names the document d: it is d's "id", or it spells d's "_id"
Names(s, d) == d.id = s \/ (ValidObjectId(s) /\ ObjectId(s) = d._id)

\* ================================================================ server.py
\* the identifiers a client of server.py sends
S_SongIds == {Uuid("songs", n) : n \in 1..MaxSongs}
S_PlaylistIds == {Uuid("playlists", n) : n \in 1..MaxPlaylists}

\* What holds of a request's arguments on arrival. server.py hands out and
\* takes a document's "id": playlist, song: the identifier is that of a stored
\* document; member: the song is in the playlist; favorite: the song is a
\* favorite; no_playlist, no_song: the identifier matches no stored document.
S_Pre(playlist_id, song_id) ==
    [playlist |-> \E i \in DOMAIN playlists : playlists[i].id = playlist_id,
     song |-> \E i \in DOMAIN songs : songs[i].id = song_id,
     member |-> \E i \in DOMAIN playlists :
                   /\ playlists[i].id = playlist_id
                   /\ InSeq(song_id, playlists[i].song_ids),
     favorite |-> \E i \in DOMAIN favorites : favorites[i].song_id = song_id,
     no_playlist |-> \A i \in DOMAIN playlists : playlists[i].id # playlist_id,
     no_song |-> \A i \in DOMAIN songs : songs[i].id # song_id]

S_get_song(q, song_id) ==
    /\ CanBegin(q)
    /\ LET song == NoId(find_one(songs, [id |-> song_id]))
       IN  IF song = None
           THEN Respond(q, 404, Detail("Song not found"))
           ELSE Respond(q, 200, Restrict(song[1], SongFields))
    /\ UNCHANGED <<songs, playlists, favorites, nextId>>
    /\ Begin(q, [op |-> "get_song", song_id |-> song_id], S_Pre(song_id, song_id))

S_create_song(q, input) ==
    /\ CanBeginCreate(q)
    /\ nextId.songs <= MaxSongs
    /\ LET song_obj == Song(input, nextId.songs)
       IN  /\ songs' = insert_one(songs, song_obj, Fresh("songs"))
           /\ Respond(q, 200, song_obj)
    /\ Bump("songs")
    /\ UNCHANGED <<playlists, favorites>>
    /\ BeginCreate(q, [op |-> "create_song", input |-> input])

S_get_playlists(q) ==
    /\ CanBegin(q)
    /\ Respond(q, 200, [i \in DOMAIN playlists |-> Without(playlists[i], "_id")])
    /\ UNCHANGED <<songs, playlists, favorites, nextId>>
    /\ Begin(q, [op |-> "get_playlists"], NoPre)

S_get_playlist(q, playlist_id) ==
    /\ CanBegin(q)
    /\ LET playlist == NoId(find_one(playlists, [id |-> playlist_id]))
       IN  IF playlist = None
           THEN Respond(q, 404, Detail("Playlist not found"))
           ELSE Respond(q, 200, Restrict(playlist[1], PlaylistFields))
    /\ UNCHANGED <<songs, playlists, favorites, nextId>>
    /\ Begin(q, [op |-> "get_playlist", playlist_id |-> playlist_id],
             S_Pre(playlist_id, playlist_id))

S_create_playlist(q, input) ==
    /\ CanBeginCreate(q)
    /\ nextId.playlists <= MaxPlaylists
    /\ LET playlist_obj == Playlist(input, nextId.playlists)
       IN  /\ playlists' = insert_one(playlists, playlist_obj, Fresh("playlists"))
           /\ Respond(q, 200, playlist_obj)
    /\ Bump("playlists")
    /\ UNCHANGED <<songs, favorites>>
    /\ BeginCreate(q, [op |-> "create_playlist", input |-> input])

\* add_song_to_playlist, first await: the playlist is read
S_add_song_find_playlist(q, playlist_id, song_id) ==
    /\ CanBegin(q)
    /\ LET playlist == NoId(find_one(playlists, [id |-> playlist_id]))
       IN  IF playlist = None
           THEN Respond(q, 404, Detail("Playlist not found"))
           ELSE Await(q, "add_find_song", [NoLocals EXCEPT !.playlist = playlist])
    /\ UNCHANGED <<songs, playlists, favorites, nextId>>
    /\ Begin(q, [op |-> "add_song_to_playlist", playlist_id |-> playlist_id,
                 song_id |-> song_id], S_Pre(playlist_id, song_id))

\* second await: the song is read, then membership is tested on the playlist
\* as it was read by the first await
S_add_song_find_song(q) ==
    /\ pc[q] = "add_find_song"
    /\ LET song == NoId(find_one(songs, [id |-> req[q].song_id]))
       IN  IF song = None
           THEN Respond(q, 404, Detail("Song not found"))
           ELSE IF InSeq(req[q].song_id, loc[q].playlist[1].song_ids)
           THEN Respond(q, 400, Detail("Song already in playlist"))
           ELSE Await(q, "add_update_one", [loc[q] EXCEPT !.song = song])
    /\ UNCHANGED <<songs, playlists, favorites, nextId>>
    /\ Step(q)

\* S_add_song_update_one that leaves song_ids alone when the song is already
\* in it at the time of the update
S_add_song_update_one_if_absent(q) ==
    /\ pc[q] = "add_update_one"
    /\ playlists' =
          IF \E i \in DOMAIN playlists :
                 /\ playlists[i].id = req[q].playlist_id
                 /\ InSeq(req[q].song_id, playlists[i].song_ids)
          THEN playlists
          ELSE update_one(playlists, [id |-> req[q].playlist_id],
                          [op |-> "$push", song_ids |-> req[q].song_id])
    /\ Respond(q, 200, Message("Song added to playlist"))
    /\ UNCHANGED <<songs, favorites, nextId>>
    /\ Step(q)

\* third await: the $push, then the success message
S_add_song_update_one(q) ==
    /\ pc[q] = "add_update_one"
    /\ playlists' = update_one(playlists, [id |-> req[q].playlist_id],
                               [op |-> "$push", song_ids |-> req[q].song_id])
    /\ Respond(q, 200, Message("Song added to playlist"))
    /\ UNCHANGED <<songs, favorites, nextId>>
    /\ Step(q)

\* S_remove_song_from_playlist without the test of modified_count
S_remove_song_unchecked(q, playlist_id, song_id) ==
    /\ CanBegin(q)
    /\ playlists' = update_one(playlists, [id |-> playlist_id],
                               [op |-> "$pull", song_ids |-> song_id])
    /\ Respond(q, 200, Message("Song removed from playlist"))
    /\ UNCHANGED <<songs, favorites, nextId>>
    /\ Begin(q, [op |-> "remove_song_from_playlist", playlist_id |-> playlist_id,
                 song_id |-> song_id], S_Pre(playlist_id, song_id))

S_remove_song_from_playlist(q, playlist_id, song_id) ==
    /\ CanBegin(q)
    /\ playlists' = update_one(playlists, [id |-> playlist_id],
                               [op |-> "$pull", song_ids |-> song_id])
    /\ LET modified_count == IF playlists' # playlists THEN 1 ELSE 0
       IN  IF modified_count = 0
           THEN Respond(q, 404, Detail("Playlist or song not found"))
           ELSE Respond(q, 200, Message("Song removed from playlist"))
    /\ UNCHANGED <<songs, favorites, nextId>>
    /\ Begin(q, [op |-> "remove_song_from_playlist", playlist_id |-> playlist_id,
                 song_id |-> song_id], S_Pre(playlist_id, song_id))

S_delete_playlist(q, playlist_id) ==
    /\ CanBegin(q)
    /\ playlists' = delete_one(playlists, [id |-> playlist_id])
    /\ LET deleted_count == Len(playlists) - Len(playlists')
       IN  IF deleted_count = 0
           THEN Respond(q, 404, Detail("Playlist not found"))
           ELSE Respond(q, 200, Message("Playlist deleted"))
    /\ UNCHANGED <<songs, favorites, nextId>>
    /\ Begin(q, [op |-> "delete_playlist", playlist_id |-> playlist_id],
             S_Pre(playlist_id, playlist_id))

S_get_favorites(q) ==
    /\ CanBegin(q)
    /\ Respond(q, 200, [i \in DOMAIN favorites |-> Without(favorites[i], "_id")])
    /\ UNCHANGED <<songs, playlists, favorites, nextId>>
    /\ Begin(q, [op |-> "get_favorites"], NoPre)

\* S_add_favorite_find_song without the test that the song exists
S_add_favorite_find_song_unchecked(q, song_id) ==
    /\ CanBegin(q)
    /\ LET song == NoId(find_one(songs, [id |-> song_id]))
       IN  Await(q, "fav_find_existing", [NoLocals EXCEPT !.song = song])
    /\ UNCHANGED <<songs, playlists, favorites, nextId>>
    /\ Begin(q, [op |-> "add_favorite", song_id |-> song_id], S_Pre(song_id, song_id))

\* add_favorite, first await: does the song exist
S_add_favorite_find_song(q, song_id) ==
    /\ CanBegin(q)
    /\ LET song == NoId(find_one(songs, [id |-> song_id]))
       IN  IF song = None
           THEN Respond(q, 404, Detail("Song not found"))
           ELSE Await(q, "fav_find_existing", [NoLocals EXCEPT !.song = song])
    /\ UNCHANGED <<songs, playlists, favorites, nextId>>
    /\ Begin(q, [op |-> "add_favorite", song_id |-> song_id], S_Pre(song_id, song_id))

\* second await: is the song already a favorite
S_add_favorite_find_existing(q) ==
    /\ pc[q] = "fav_find_existing"
    /\ req[q].op = "add_favorite"
    /\ LET existing == NoId(find_one(favorites, [song_id |-> req[q].song_id]))
       IN  IF existing # None
           THEN Respond(q, 400, Detail("Song already in favorites"))
           ELSE Await(q, "fav_insert", loc[q])
    /\ UNCHANGED <<songs, playlists, favorites, nextId>>
    /\ Step(q)

\* third await: the insert
S_add_favorite_insert(q) ==
    /\ pc[q] = "fav_insert"
    /\ LET favorite_obj == Favorite(req[q].song_id, nextId.favorites)
       IN  /\ favorites' = insert_one(favorites, favorite_obj, Fresh("favorites"))
           /\ Respond(q, 200, favorite_obj)
    /\ Bump("favorites")
    /\ UNCHANGED <<songs, playlists>>
    /\ Step(q)

S_remove_favorite(q, song_id) ==
    /\ CanBegin(q)
    /\ favorites' = delete_one(favorites, [song_id |-> song_id])
    /\ LET deleted_count == Len(favorites) - Len(favorites')
       IN  IF deleted_count = 0
           THEN Respond(q, 404, Detail("Favorite not found"))
           ELSE Respond(q, 200, Message("Removed from favorites"))
    /\ UNCHANGED <<songs, playlists, nextId>>
    /\ Begin(q, [op |-> "remove_favorite", song_id |-> song_id], S_Pre(song_id, song_id))

S_Next ==
    \E q \in Procs :
        \/ \E id \in S_SongIds : S_get_song(q, id)
        \/ \E input \in SongCreate : S_create_song(q, input)
        \/ S_get_playlists(q)
        \/ \E id \in S_PlaylistIds : S_get_playlist(q, id)
        \/ \E input \in PlaylistCreate : S_create_playlist(q, input)
        \/ \E p \in S_PlaylistIds, s \in S_SongIds : S_add_song_find_playlist(q, p, s)
        \/ S_add_song_find_song(q)
        \/ S_add_song_update_one(q)
        \/ \E p \in S_PlaylistIds, s \in S_SongIds : S_remove_song_from_playlist(q, p, s)
        \/ \E id \in S_PlaylistIds : S_delete_playlist(q, id)
        \/ S_get_favorites(q)
        \/ \E id \in S_SongIds : S_add_favorite_find_song(q, id)
        \/ S_add_favorite_find_existing(q)
        \/ S_add_favorite_insert(q)
        \/ \E id \in S_SongIds : S_remove_favorite(q, id)

SpecServer == Init /\ [][S_Next]_vars

\* ======================================================== Functions/main.py
\* the value None of a field
NoneValue == "None"

setdefault(d, k, v) == IF k \in DOMAIN d THEN d ELSE With(d, k, v)

\* mongo_to_dict(doc): None for an absent or empty document; otherwise "id" is
\* set from "_id" whenever the document has an "_id", "_id" is removed and the
\* missing fields get their defaults
mongo_to_dict(doc) ==
    IF doc = None \/ DOMAIN doc[1] = {} THEN None
    ELSE LET d0 == doc[1]
             d1 == IF "_id" \in DOMAIN d0
                   THEN Without(With(d0, "id", StrOfObjectId(d0._id)), "_id")
                   ELSE d0
             d2 == setdefault(d1, "title", NoneValue)
             d3 == setdefault(d2, "artist", NoneValue)
             d4 == setdefault(d3, "album", NoneValue)
             d5 == setdefault(d4, "duration", NoneValue)
             d6 == setdefault(d5, "cover_url", NoneValue)
             d7 == setdefault(d6, "audio_url", NoneValue)
             d8 == setdefault(d7, "created_at", NoneValue)
             d9 == setdefault(d8, "name", NoneValue)
             d10 == setdefault(d9, "description", "")
         IN  Some(setdefault(d10, "song_ids", << >>))

\* "except Exception as e: ... raise HTTPException(status_code=500)": the
\* clause also catches the HTTPException the try block raises itself
except_Exception(status) == 500

\* the identifiers a client of main.py sends: the hexadecimal digits of a
\* storage identifier as the API returns them (lower case), the same digits
\* in upper case, and the uuid stored in the field "id"
M_SongIds ==
    UNION {{Hex(NewObjectId("songs", n), "hex"), Hex(NewObjectId("songs", n), "HEX"),
            Uuid("songs", n)} : n \in 1..MaxSongs}
M_PlaylistIds ==
    UNION {{Hex(NewObjectId("playlists", n), "hex"), Uuid("playlists", n)} :
           n \in 1..MaxPlaylists}

\* the string s spells the storage identifier of the document d: this is the
\* identifier main.py hands out as "id"
Spells(s, d) == ValidObjectId(s) /\ ObjectId(s) = d._id

\* What holds of a request's arguments on arrival, as for S_Pre. main.py hands
\* out the digits of a document's "_id"; an identifier matches no stored
\* document when it neither spells an "_id" nor is an "id".
M_Pre(playlist_id, song_id) ==
    [playlist |-> \E i \in DOMAIN playlists : Spells(playlist_id, playlists[i]),
     song |-> \E i \in DOMAIN songs : Spells(song_id, songs[i]),
     member |-> \E i \in DOMAIN playlists, j \in DOMAIN songs :
                   /\ Spells(playlist_id, playlists[i])
                   /\ Spells(song_id, songs[j])
                   /\ \E k \in DOMAIN playlists[i].song_ids :
                         Spells(playlists[i].song_ids[k], songs[j]),
     favorite |-> \E i \in DOMAIN favorites : favorites[i].song_id = song_id,
     no_playlist |-> \A i \in DOMAIN playlists : ~Names(playlist_id, playlists[i]),
     no_song |-> \A i \in DOMAIN songs : ~Names(song_id, songs[i])]

M_get_song(q, song_id) ==
    /\ CanBegin(q)
    /\ LET song == mongo_to_dict(find_one(songs, [id |-> song_id]))
       IN  IF song = None
           THEN Respond(q, except_Exception(404), Detail("Internal Server Error"))
           ELSE Respond(q, 200, Restrict(song[1], SongFields))
    /\ UNCHANGED <<songs, playlists, favorites, nextId>>
    /\ Begin(q, [op |-> "get_song", song_id |-> song_id], M_Pre(song_id, song_id))

\* insert_one adds "_id" to song_dict, which mongo_to_dict then reads
M_create_song(q, input) ==
    /\ CanBeginCreate(q)
    /\ nextId.songs <= MaxSongs
    /\ LET song_dict == Song(input, nextId.songs)
       IN  /\ songs' = insert_one(songs, song_dict, Fresh("songs"))
           /\ Respond(q, 200,
                      Restrict(mongo_to_dict(Some(With(song_dict, "_id", Fresh("songs"))))[1],
                               SongFields))
    /\ Bump("songs")
    /\ UNCHANGED <<playlists, favorites>>
    /\ BeginCreate(q, [op |-> "create_song", input |-> input])

M_get_playlists(q) ==
    /\ CanBegin(q)
    /\ Respond(q, 200, [i \in DOMAIN playlists |->
                          Restrict(mongo_to_dict(Some(playlists[i]))[1], PlaylistFields)])
    /\ UNCHANGED <<songs, playlists, favorites, nextId>>
    /\ Begin(q, [op |-> "get_playlists"], NoPre)

M_get_playlist(q, playlist_id) ==
    /\ CanBegin(q)
    /\ LET playlist == mongo_to_dict(find_one(playlists, [id |-> playlist_id]))
       IN  IF playlist = None
           THEN Respond(q, except_Exception(404), Detail("Internal Server Error"))
           ELSE Respond(q, 200, Restrict(playlist[1], PlaylistFields))
    /\ UNCHANGED <<songs, playlists, favorites, nextId>>
    /\ Begin(q, [op |-> "get_playlist", playlist_id |-> playlist_id],
             M_Pre(playlist_id, playlist_id))

M_create_playlist(q, input) ==
    /\ CanBeginCreate(q)
    /\ nextId.playlists <= MaxPlaylists
    /\ LET playlist_dict == Playlist(input, nextId.playlists)
       IN  /\ playlists' = insert_one(playlists, playlist_dict, Fresh("playlists"))
           /\ Respond(q, 200,
                      Restrict(mongo_to_dict(Some(With(playlist_dict, "_id",
                                                       Fresh("playlists"))))[1],
                               PlaylistFields))
    /\ Bump("playlists")
    /\ UNCHANGED <<songs, favorites>>
    /\ BeginCreate(q, [op |-> "create_playlist", input |-> input])

\* an exception no handler catches: the framework answers 500
Unhandled(q) == Respond(q, 500, Detail("Internal Server Error"))

\* get_playlist_songs, first await: the playlist is read by its "_id"
M_get_playlist_songs_find_playlist(q, playlist_id) ==
    /\ CanBegin(q)
    /\ IF ~ValidObjectId(playlist_id) THEN Unhandled(q)
       ELSE LET playlist == find_one(playlists, [_id |-> ObjectId(playlist_id)])
            IN  IF playlist = None
                THEN Respond(q, 404, Detail("Playlist not found"))
                ELSE IF playlist[1].song_ids = << >>
                THEN Respond(q, 200, << >>)
                ELSE IF \E i \in DOMAIN playlist[1].song_ids :
                            ~ValidObjectId(playlist[1].song_ids[i])
                THEN Unhandled(q)
                ELSE Await(q, "list_find_songs", [NoLocals EXCEPT !.playlist = playlist])
    /\ UNCHANGED <<songs, playlists, favorites, nextId>>
    /\ Begin(q, [op |-> "get_playlist_songs", playlist_id |-> playlist_id],
             M_Pre(playlist_id, playlist_id))

\* second await: the songs whose "_id" is among the playlist's song_ids
M_get_playlist_songs_find_songs(q) ==
    /\ pc[q] = "list_find_songs"
    /\ LET song_ids == loc[q].playlist[1].song_ids
           oids == {ObjectId(song_ids[i]) : i \in DOMAIN song_ids}
           found == find(songs, "_id", oids)
       IN  Respond(q, 200, [i \in DOMAIN found |->
                              Restrict(mongo_to_dict(Some(found[i]))[1], SongFields)])
    /\ UNCHANGED <<songs, playlists, favorites, nextId>>
    /\ Step(q)

\* add_song_to_playlist, first await: the playlist is read by its "_id"; the
\* song identifier is parsed before the second await
M_add_song_find_playlist(q, playlist_id, song_id) ==
    /\ CanBegin(q)
    /\ IF ~ValidObjectId(playlist_id) THEN Unhandled(q)
       ELSE LET playlist == find_one(playlists, [_id |-> ObjectId(playlist_id)])
            IN  IF playlist = None
                THEN Respond(q, 404, Detail("Playlist not found"))
                ELSE IF ~ValidObjectId(song_id) THEN Unhandled(q)
                ELSE Await(q, "add_find_song", [NoLocals EXCEPT !.playlist = playlist])
    /\ UNCHANGED <<songs, playlists, favorites, nextId>>
    /\ Begin(q, [op |-> "add_song_to_playlist", playlist_id |-> playlist_id,
                 song_id |-> song_id], M_Pre(playlist_id, song_id))

\* second await: the song is read by its "_id"; membership is tested with the
\* string the client sent
M_add_song_find_song(q) ==
    /\ pc[q] = "add_find_song"
    /\ LET song == find_one(songs, [_id |-> ObjectId(req[q].song_id)])
       IN  IF song = None
           THEN Respond(q, 404, Detail("Song not found"))
           ELSE IF InSeq(req[q].song_id, loc[q].playlist[1].song_ids)
           THEN Respond(q, 400, Detail("Song already in playlist"))
           ELSE Await(q, "add_update_one", [loc[q] EXCEPT !.song = song])
    /\ UNCHANGED <<songs, playlists, favorites, nextId>>
    /\ Step(q)

\* third await: the $push of str(song["_id"])
M_add_song_update_one(q) ==
    /\ pc[q] = "add_update_one"
    /\ playlists' = update_one(playlists,
                               [_id |-> ObjectId(req[q].playlist_id)],
                               [op |-> "$push", song_ids |-> StrOfObjectId(loc[q].song[1]._id)])
    /\ Respond(q, 200, Message("Song added to playlist"))
    /\ UNCHANGED <<songs, favorites, nextId>>
    /\ Step(q)

M_delete_playlist(q, playlist_id) ==
    /\ CanBegin(q)
    /\ IF ~ValidObjectId(playlist_id)
       THEN /\ UNCHANGED playlists
            /\ Respond(q, except_Exception(500), Detail("Internal Server Error"))
       ELSE /\ playlists' = delete_one(playlists, [_id |-> ObjectId(playlist_id)])
            /\ LET deleted_count == Len(playlists) - Len(playlists')
               IN  IF deleted_count = 0
                   THEN Respond(q, except_Exception(404), Detail("Internal Server Error"))
                   ELSE Respond(q, 200, Message("Playlist deleted"))
    /\ UNCHANGED <<songs, favorites, nextId>>
    /\ Begin(q, [op |-> "delete_playlist", playlist_id |-> playlist_id],
             M_Pre(playlist_id, playlist_id))

M_get_favorites(q) ==
    /\ CanBegin(q)
    /\ Respond(q, 200, [i \in DOMAIN favorites |->
                          Restrict(mongo_to_dict(Some(favorites[i]))[1], FavoriteFields)])
    /\ UNCHANGED <<songs, playlists, favorites, nextId>>
    /\ Begin(q, [op |-> "get_favorites"], NoPre)

\* add_favorite, first await: is the song already a favorite (the song itself
\* is not looked up)
M_add_favorite_find_existing(q, song_id) ==
    /\ CanBegin(q)
    /\ LET existing == find_one(favorites, [song_id |-> song_id])
       IN  IF existing # None
           THEN Respond(q, except_Exception(400), Detail("Internal Server Error"))
           ELSE Await(q, "fav_insert", NoLocals)
    /\ UNCHANGED <<songs, playlists, favorites, nextId>>
    /\ Begin(q, [op |-> "add_favorite", song_id |-> song_id], M_Pre(song_id, song_id))

\* second await: the insert; insert_one adds "_id" to favorite_dict
M_add_favorite_insert(q) ==
    /\ pc[q] = "fav_insert"
    /\ LET favorite_dict == Favorite(req[q].song_id, nextId.favorites)
       IN  /\ favorites' = insert_one(favorites, favorite_dict, Fresh("favorites"))
           /\ Respond(q, 200,
                      Restrict(mongo_to_dict(Some(With(favorite_dict, "_id",
                                                       Fresh("favorites"))))[1],
                               FavoriteFields))
    /\ Bump("favorites")
    /\ UNCHANGED <<songs, playlists>>
    /\ Step(q)

M_remove_favorite(q, song_id) ==
    /\ CanBegin(q)
    /\ favorites' = delete_one(favorites, [song_id |-> song_id])
    /\ LET deleted_count == Len(favorites) - Len(favorites')
       IN  IF deleted_count = 0
           THEN Respond(q, except_Exception(404), Detail("Internal Server Error"))
           ELSE Respond(q, 200, Message("Removed from favorites"))
    /\ UNCHANGED <<songs, playlists, nextId>>
    /\ Begin(q, [op |-> "remove_favorite", song_id |-> song_id], M_Pre(song_id, song_id))

M_Next ==
    \E q \in Procs :
        \/ \E id \in M_SongIds : M_get_song(q, id)
        \/ \E input \in SongCreate : M_create_song(q, input)
        \/ M_get_playlists(q)
        \/ \E id \in M_PlaylistIds : M_get_playlist(q, id)
        \/ \E input \in PlaylistCreate : M_create_playlist(q, input)
        \/ \E id \in M_PlaylistIds : M_get_playlist_songs_find_playlist(q, id)
        \/ M_get_playlist_songs_find_songs(q)
        \/ \E p \in M_PlaylistIds, s \in M_SongIds : M_add_song_find_playlist(q, p, s)
        \/ M_add_song_find_song(q)
        \/ M_add_song_update_one(q)
        \/ \E id \in M_PlaylistIds : M_delete_playlist(q, id)
        \/ M_get_favorites(q)
        \/ \E id \in M_SongIds : M_add_favorite_find_existing(q, id)
        \/ M_add_favorite_insert(q)
        \/ \E id \in M_SongIds : M_remove_favorite(q, id)

SpecMain == Init /\ [][M_Next]_vars

\* ------------------------------------------------- mongo_to_dict on its own
\* the fields a document handed to mongo_to_dict may hold, and the value each
\* holds when present
DocFields == {"_id", "id", "title", "name", "description", "song_ids", "duration"}
DocValue(k) ==
    CASE k = "_id" -> NewObjectId("songs", 1)
      [] k = "id" -> Uuid("songs", 1)
      [] k = "title" -> "A"
      [] k = "name" -> "P"
      [] k = "description" -> "d"
      [] k = "song_ids" -> << Hex(NewObjectId("songs", 2), "hex") >>
      [] k = "duration" -> 120

\* the arguments of mongo_to_dict: None, the empty document, and a document
\* for every choice of fields
Docs == {None} \cup {Some([k \in ks |-> DocValue(k)]) : ks \in SUBSET DocFields}

N_Init ==
    /\ songs = << >> /\ playlists = << >> /\ favorites = << >>
    /\ nextId = [songs |-> 1, playlists |-> 1, favorites |-> 1]
    /\ started = 0
    /\ pc = [q \in Procs |-> "idle"]
    /\ loc = [q \in Procs |-> NoLocals]
    /\ obs = [q \in Procs |-> NoObs]
    /\ resp = [q \in Procs |-> NoResp]
    /\ \E doc \in Docs :
          req = [q \in Procs |-> IF q = "r1" THEN [op |-> "mongo_to_dict", doc |-> doc]
                                             ELSE NoReq]

\* one call of mongo_to_dict on the document drawn
N_mongo_to_dict ==
    /\ started = 0
    /\ started' = 1
    /\ resp' = [resp EXCEPT !["r1"] = [status |-> 200, body |-> mongo_to_dict(req["r1"].doc)]]
    /\ UNCHANGED <<songs, playlists, favorites, nextId, pc, req, loc, obs>>

N_Next == N_mongo_to_dict

SpecNormalize == N_Init /\ [][N_Next]_vars

\* ------------------------------------------------------------ song search
\* the characters of the titles, artists, albums and search terms drawn: a
\* letter in both cases and the full stop
Chars == {"a", "A", "."}
\* the longest title and the longest search term drawn
MaxTextLen == 2

\* the strings of at most n characters, as sequences of characters
Strings(n) == UNION {[1..k -> Chars] : k \in 0..n}

\* the request bodies of POST /songs the search is run on
SearchSongCreate ==
    { [title |-> t, artist |-> a, album |-> b, duration |-> 120,
       cover_url |-> "x", audio_url |-> "y"] :
      t \in Strings(MaxTextLen) \ {<< >>},
      a \in {<<"a">>, <<".">>},
      b \in {<<"A">>, <<".">>} }

\* the query parameter search: absent (None) or a string
SearchTerms == {None} \cup {Some(s) : s \in Strings(MaxTextLen)}

\* "if search:" is false for None and for the empty string
Truthy(search) == search # None /\ search[1] # << >>

\* "$options": "i"
Lower(c) == IF c = "A" THEN "a" ELSE c

\* {"$regex": pattern, "$options": "i"}: the pattern is a regular expression
\* searched anywhere in the text; a letter matches itself in either case and
\* "." matches any one character
RegexAt(pattern, text, i) ==
    \A k \in 1..Len(pattern) :
        pattern[k] = "." \/ Lower(pattern[k]) = Lower(text[i + k - 1])
Regex(pattern, text) ==
    \E i \in 1..(Len(text) - Len(pattern) + 1) : RegexAt(pattern, text, i)

\* the query {"$or": [{"title": r}, {"artist": r}, {"album": r}]} with
\* r = {"$regex": search, "$options": "i"}, or {} when there is no search
Query(search, d) ==
    Truthy(search) =>
        \/ Regex(search[1], d.title)
        \/ Regex(search[1], d.artist)
        \/ Regex(search[1], d.album)

\* cursor.to_list(n): at most the first n documents
ListCap == 1000
to_list(docs, n) == SubSeq(docs, 1, IF Len(docs) < n THEN Len(docs) ELSE n)

S_get_songs(q, search) ==
    /\ CanBegin(q)
    /\ LET found == to_list(SelectSeq(songs, LAMBDA d : Query(search, d)), ListCap)
       IN  Respond(q, 200, [i \in DOMAIN found |->
                              Restrict(Without(found[i], "_id"), SongFields)])
    /\ UNCHANGED <<songs, playlists, favorites, nextId>>
    /\ Begin(q, [op |-> "get_songs", search |-> search], NoPre)

S_SearchNext ==
    \E q \in Procs :
        \/ \E input \in SearchSongCreate : S_create_song(q, input)
        \/ \E search \in SearchTerms : S_get_songs(q, search)

SpecSearch == Init /\ [][S_SearchNext]_vars

M_get_songs(q, search) ==
    /\ CanBegin(q)
    /\ LET found == to_list(SelectSeq(songs, LAMBDA d : Query(search, d)), ListCap)
       IN  Respond(q, 200, [i \in DOMAIN found |->
                              Restrict(mongo_to_dict(Some(found[i]))[1], SongFields)])
    /\ UNCHANGED <<songs, playlists, favorites, nextId>>
    /\ Begin(q, [op |-> "get_songs", search |-> search], NoPre)

M_SearchNext ==
    \E q \in Procs :
        \/ \E input \in SearchSongCreate : M_create_song(q, input)
        \/ \E search \in SearchTerms : M_get_songs(q, search)

SpecSearchMain == Init /\ [][M_SearchNext]_vars

\* ------------------------------------------- server.py with init_sample_data
\* sample_songs, before their "id" and "created_at" are filled in
SampleSongs ==
    << [title |-> "Neon Dreams", artist |-> "Synthwave Collective",
        album |-> "Electric Nights", duration |-> 245, cover_url |-> "x", audio_url |-> "y"],
       [title |-> "Midnight City", artist |-> "Urban Echo",
        album |-> "City Lights", duration |-> 198, cover_url |-> "x", audio_url |-> "y"],
       [title |-> "Retro Wave", artist |-> "Neon Pulse",
        album |-> "80s Revival", duration |-> 223, cover_url |-> "x", audio_url |-> "y"],
       [title |-> "Digital Love", artist |-> "Cyber Hearts",
        album |-> "Virtual Romance", duration |-> 267, cover_url |-> "x", audio_url |-> "y"],
       [title |-> "Cosmic Journey", artist |-> "Space Travelers",
        album |-> "Beyond Stars", duration |-> 301, cover_url |-> "x", audio_url |-> "y"],
       [title |-> "Pulse", artist |-> "Beat Makers",
        album |-> "Rhythm Nation", duration |-> 189, cover_url |-> "x", audio_url |-> "y"],
       [title |-> "Echoes", artist |-> "Sound Waves",
        album |-> "Reflections", duration |-> 234, cover_url |-> "x", audio_url |-> "y"],
       [title |-> "Velocity", artist |-> "Fast Lane",
        album |-> "Speed of Sound", duration |-> 212, cover_url |-> "x", audio_url |-> "y"] >>

\* sample_playlists, before "id", "song_ids" and "created_at" are filled in;
\* refs are the indexes in sample_songs (counted from 1) of the songs referenced
SamplePlaylists ==
    << [name |-> "Synthwave Essentials", description |-> "The best synthwave tracks",
        cover_url |-> "x", refs |-> <<1, 3>>],
       [name |-> "Night Drive", description |-> "Perfect playlist for late night drives",
        cover_url |-> "x", refs |-> <<2, 4>>] >>

\* the i-th identifier the init_sample_data request of slot q generates for
\* collection c: distinct from those of the other requests
SampleId(c, q, i) == Uuid(c, 10 * Rank(q) + i)

\* collection.insert_many(docs): the store adds its own _id to each document
insert_many(coll, docs) ==
    coll \o [i \in DOMAIN docs |-> With(docs[i], "_id", NewObjectId(docs[i].id.c, docs[i].id.n))]

\* what holds on arrival of init_sample_data: song when the songs collection
\* is not empty, no_song when it is
I_Pre == [NoPre EXCEPT !.song = (songs # << >>), !.no_song = (songs = << >>)]

\* init_sample_data, first await: count_documents; sample_songs is built
\* before the second await
S_init_count_documents(q) ==
    /\ CanBegin(q)
    /\ LET existing_songs == Len(songs)
           sample_songs == [i \in DOMAIN SampleSongs |->
                               With(With(SampleSongs[i], "id", SampleId("songs", q, i)),
                                    "created_at", "ts")]
       IN  IF existing_songs > 0
           THEN Respond(q, 200, Message("Data already initialized"))
           ELSE Await(q, "init_insert_songs",
                      [playlist |-> None, song |-> None, sample_songs |-> sample_songs])
    /\ UNCHANGED <<songs, playlists, favorites, nextId>>
    /\ Arrive(q, [op |-> "init_sample_data"], I_Pre, 1)

\* second await: insert_many of the sample songs; sample_playlists is built
\* from the identifiers of sample_songs before the third await
S_init_insert_songs(q) ==
    /\ pc[q] = "init_insert_songs"
    /\ songs' = insert_many(songs, loc[q].sample_songs)
    /\ LET sample_songs == loc[q].sample_songs
           sample_playlists ==
               [i \in DOMAIN SamplePlaylists |->
                   [id |-> SampleId("playlists", q, i),
                    name |-> SamplePlaylists[i].name,
                    description |-> SamplePlaylists[i].description,
                    cover_url |-> SamplePlaylists[i].cover_url,
                    song_ids |-> [k \in DOMAIN SamplePlaylists[i].refs |->
                                     sample_songs[SamplePlaylists[i].refs[k]].id],
                    created_at |-> "ts"]]
       IN  Await(q, "init_insert_playlists",
                 [playlist |-> None, song |-> None, sample_playlists |-> sample_playlists])
    /\ UNCHANGED <<playlists, favorites, nextId>>
    /\ Step(q)

\* third await: insert_many of the sample playlists, then the summary
S_init_insert_playlists(q) ==
    /\ pc[q] = "init_insert_playlists"
    /\ playlists' = insert_many(playlists, loc[q].sample_playlists)
    /\ Respond(q, 200, [message |-> "Sample data initialized",
                        songs |-> Len(SampleSongs), playlists |-> Len(SamplePlaylists)])
    /\ UNCHANGED <<songs, favorites, nextId>>
    /\ Step(q)

\* the identifiers a client sends once there is sample data: those of the
\* first created song and playlist and of a sample song and a sample playlist
I_SongIds == {Uuid("songs", 1), SampleId("songs", "r1", 1)}
I_PlaylistIds == {Uuid("playlists", 1), SampleId("playlists", "r1", 1)}

\* the operations of server.py that write, init_sample_data among them
I_Next ==
    \E q \in Procs :
        \/ \E input \in SongCreate : S_create_song(q, input)
        \/ \E input \in PlaylistCreate : S_create_playlist(q, input)
        \/ \E p \in I_PlaylistIds, s \in I_SongIds : S_add_song_find_playlist(q, p, s)
        \/ S_add_song_find_song(q)
        \/ S_add_song_update_one(q)
        \/ \E p \in I_PlaylistIds, s \in I_SongIds : S_remove_song_from_playlist(q, p, s)
        \/ \E p \in I_PlaylistIds : S_delete_playlist(q, p)
        \/ \E s \in I_SongIds : S_add_favorite_find_song(q, s)
        \/ S_add_favorite_find_existing(q)
        \/ S_add_favorite_insert(q)
        \/ \E s \in I_SongIds : S_remove_favorite(q, s)
        \/ S_init_count_documents(q)
        \/ S_init_insert_songs(q)
        \/ S_init_insert_playlists(q)

SpecIntegrity == Init /\ [][I_Next]_vars

\* =================================================================== claims
Finished(q, op) == ~InFlight(q) /\ req[q].op = op

\* how many entries of the song_ids of the playlist named playlist_id name the
\* song named song_id
Occurrences(playlist_id, song_id) ==
    Cardinality(UNION {
        {<<i, k>> : k \in {k \in DOMAIN playlists[i].song_ids :
            \E j \in DOMAIN songs : /\ Names(song_id, songs[j])
                                     /\ Names(playlists[i].song_ids[k], songs[j])}} :
        i \in {i \in DOMAIN playlists : Names(playlist_id, playlists[i])}})

\* C1: in every reachable state, under any interleaving of Add, Remove and
\* List requests on favorites, no two favorite records have the same song_id.
C1_FavoritesUnique ==
    \A i, j \in DOMAIN favorites :
        favorites[i].song_id = favorites[j].song_id => i = j

\* C2: for an existing playlist p and an existing song s not yet in p, AddSong(p, s)
\* run to completion and then AddSong(p, s) again: the first call succeeds, the
\* second fails with Conflict (400), and p's song_ids then holds s exactly once.
C2_AddSongTwice ==
    \A q \in Procs :
        ( /\ Finished(q, "add_song_to_playlist")
          /\ obs[q].alone
          /\ obs[q].prior.link = "repeat"
          /\ obs[q].prior.pre.playlist
          /\ obs[q].prior.pre.song
          /\ ~obs[q].prior.pre.member )
        => /\ obs[q].prior.resp.status = 200
           /\ resp[q].status = 400
           /\ Occurrences(req[q].playlist_id, req[q].song_id) = 1

\* C3: favorite Add(songId) with a songId that matches no song fails with
\* NotFound (404) and leaves the favorites collection unchanged; so every
\* favorite references a song of the songs collection.
C3_AddFavoriteUnknownSong ==
    /\ \A q \in Procs :
          (Finished(q, "add_favorite") /\ obs[q].pre.no_song)
          => (resp[q].status = 404 /\ ~obs[q].wrote)
    /\ \A i \in DOMAIN favorites :
          \E j \in DOMAIN songs : Names(favorites[i].song_id, songs[j])

\* C4: Get called right after Create with the identifier Create returned
\* succeeds and returns the song Create was given, under that identifier.
C4_GetAfterCreate ==
    \A q \in Procs :
        ( /\ Finished(q, "get_song")
          /\ obs[q].alone
          /\ obs[q].prior.link = "get_created" )
        => /\ resp[q].status = 200
           /\ resp[q].body.id = obs[q].prior.resp.body.id
           /\ \A f \in DOMAIN obs[q].prior.req.input :
                 resp[q].body[f] = obs[q].prior.req.input[f]

\* C5: Get(id) of a song or a playlist whose identifier matches no stored record
\* answers NotFound (404), not the server error (500), and changes nothing.
C5_GetUnknown ==
    \A q \in Procs :
        /\ (Finished(q, "get_song") /\ obs[q].pre.no_song)
           => (resp[q].status = 404 /\ ~obs[q].wrote)
        /\ (Finished(q, "get_playlist") /\ obs[q].pre.no_playlist)
           => (resp[q].status = 404 /\ ~obs[q].wrote)

\* C6: AddSong(playlistId, songId) fails with NotFound (404) whenever the
\* playlist or the song does not exist, and then changes nothing.
C6_AddSongUnknown ==
    \A q \in Procs :
        ( /\ Finished(q, "add_song_to_playlist")
          /\ obs[q].alone
          /\ (obs[q].pre.no_playlist \/ obs[q].pre.no_song) )
        => (resp[q].status = 404 /\ ~obs[q].wrote)

\* the step is the arrival of request op in slot q (a handler of one await
\* is answered in the same step)
Arrival(q, op) == Slot(q) /\ started' = started + 1 /\ req'[q].op = op

\* the stored playlists other than those the string s names
Others(s) == {i \in DOMAIN playlists : ~Names(s, playlists[i])}

\* C7: Delete(playlistId) on an existing playlist removes exactly that playlist
\* record and leaves songs, favorites and every other playlist unchanged, so that
\* Get(playlistId) afterwards fails with NotFound (404) while the songs are still
\* there; Delete on an absent playlist fails with NotFound and changes nothing.
C7_DeleteStep(q) ==
    LET playlist_id == req'[q].playlist_id
    IN  /\ obs'[q].pre.playlist =>
              /\ resp'[q].status = 200
              /\ Len(playlists') = Len(playlists) - 1
              /\ \A i \in Others(playlist_id) :
                    \E j \in DOMAIN playlists' : playlists'[j] = playlists[i]
              /\ \A j \in DOMAIN playlists' : ~Names(playlist_id, playlists'[j])
              /\ songs' = songs
              /\ favorites' = favorites
        /\ obs'[q].pre.no_playlist =>
              /\ resp'[q].status = 404
              /\ store' = store

C7_GetAfterDelete ==
    \A q \in Procs :
        ( /\ Finished(q, "get_playlist")
          /\ obs[q].alone
          /\ obs[q].prior.link = "get_deleted"
          /\ obs[q].prior.resp.status = 200 )
        => resp[q].status = 404

C7_Delete ==
    [][ /\ \A q \in Procs : Arrival(q, "delete_playlist") => C7_DeleteStep(q)
        /\ C7_GetAfterDelete' ]_vars

\* C8: RemoveSong(playlistId, songId) removes songId from the playlist's song_ids
\* and reports success when the playlist exists and contains songId, keeping
\* every other identifier of that playlist; it fails with NotFound (404) and
\* leaves the store unchanged when the playlist does not exist or songId is not
\* in its song_ids.
C8_RemoveStep(q) ==
    LET playlist_id == req'[q].playlist_id
        song_id == req'[q].song_id
    IN  IF obs'[q].pre.playlist /\ obs'[q].pre.member
        THEN /\ resp'[q].status = 200
             /\ Len(playlists') = Len(playlists)
             /\ \A i \in DOMAIN playlists :
                   IF playlists[i].id = playlist_id
                   THEN /\ ~InSeq(song_id, playlists'[i].song_ids)
                        /\ playlists'[i].song_ids =
                              SelectSeq(playlists[i].song_ids, LAMBDA x : x # song_id)
                        /\ Without(playlists'[i], "song_ids") =
                              Without(playlists[i], "song_ids")
                   ELSE playlists'[i] = playlists[i]
             /\ songs' = songs
             /\ favorites' = favorites
        ELSE /\ resp'[q].status = 404
             /\ store' = store

ListedIds(body) == {body[i].id : i \in DOMAIN body}

\* the identifiers, as the API hands them out, of the stored songs that an
\* entry of the song_ids of the playlist named playlist_id names
ResolvedIds(playlist_id) ==
    {StrOfObjectId(songs[j]._id) : j \in
        {j \in DOMAIN songs :
            \E i \in DOMAIN playlists :
                /\ Names(playlist_id, playlists[i])
                /\ \E k \in DOMAIN playlists[i].song_ids :
                      Names(playlists[i].song_ids[k], songs[j])}}

\* C9: ListSongsIn(playlistId) fails with NotFound (404) when the playlist is
\* absent; otherwise it returns exactly the stored songs whose identifier is in
\* the playlist's song_ids, each once (the empty list when there are none), and
\* right after a successful AddSong(p, s) on an empty playlist exactly [s].
C9_ListSongsIn ==
    \A q \in Procs :
        /\ (Finished(q, "get_playlist_songs") /\ obs[q].pre.no_playlist)
           => resp[q].status = 404
        /\ (Finished(q, "get_playlist_songs") /\ obs[q].alone /\ obs[q].pre.playlist)
           => /\ resp[q].status = 200
              /\ ListedIds(resp[q].body) = ResolvedIds(req[q].playlist_id)
              /\ Len(resp[q].body) = Cardinality(ListedIds(resp[q].body))
        /\ ( /\ Finished(q, "get_playlist_songs") /\ obs[q].alone
             /\ obs[q].prior.link = "list_added"
             /\ obs[q].prior.resp.status = 200
             /\ Occurrences(req[q].playlist_id, obs[q].prior.req.song_id) = 1
             /\ \A i \in DOMAIN playlists :
                   Names(req[q].playlist_id, playlists[i])
                   => Len(playlists[i].song_ids) = 1 )
           => /\ resp[q].status = 200
              /\ Len(resp[q].body) = 1
              /\ \E j \in DOMAIN songs :
                    /\ Names(obs[q].prior.req.song_id, songs[j])
                    /\ Names(resp[q].body[1].id, songs[j])

\* two AddSong requests for the same playlist and song that were in flight
\* together
Concurrent(q1, q2) ==
    /\ q1 # q2
    /\ req[q1].op = "add_song_to_playlist"
    /\ req[q2] = req[q1]
    /\ ~obs[q1].alone /\ ~obs[q2].alone

\* C10: two concurrent AddSong(p, s) for an existing playlist and song can both
\* pass the membership check and both append: whenever both report success,
\* p's song_ids holds s twice; and such a state is reached (C10_Witness).
C10_BothAppend ==
    \A q1, q2 \in Procs :
        ( /\ Concurrent(q1, q2)
          /\ ~InFlight(q1) /\ ~InFlight(q2)
          /\ resp[q1].status = 200 /\ resp[q2].status = 200 )
        => Occurrences(req[q1].playlist_id, req[q1].song_id) = 2

C10_Witness ==
    \E q1, q2 \in Procs :
        /\ Concurrent(q1, q2)
        /\ ~InFlight(q1) /\ ~InFlight(q2)
        /\ resp[q1].status = 200 /\ resp[q2].status = 200
        /\ obs[q1].pre.playlist /\ obs[q1].pre.song /\ ~obs[q1].pre.member
        /\ Occurrences(req[q1].playlist_id, req[q1].song_id) = 2

\* the argument and the result of the call of mongo_to_dict that was made
Normalized == started = 1 /\ req["r1"].op = "mongo_to_dict"

\* the default mongo_to_dict gives a missing field
Default(k) == IF k = "description" THEN "" ELSE IF k = "song_ids" THEN << >> ELSE NoneValue

DefaultedFields == {"title", "artist", "album", "duration", "cover_url", "audio_url",
                    "created_at", "name", "description", "song_ids"}

\* C11: mongo_to_dict returns None for an absent or empty record; for a
\* non-empty record the result never holds "_id", its "id" comes from "_id"
\* only when the record has no "id" (an "id" that is present is kept), every
\* missing field gets its default and every field that is present is unchanged.
C11_Normalizer ==
    Normalized =>
        LET doc == req["r1"].doc
            out == resp["r1"].body
        IN  IF doc = None \/ DOMAIN doc[1] = {}
            THEN out = None
            ELSE /\ out # None
                 /\ "_id" \notin DOMAIN out[1]
                 /\ ("id" \in DOMAIN doc[1]) => (out[1].id = doc[1].id)
                 /\ ("id" \notin DOMAIN doc[1] /\ "_id" \in DOMAIN doc[1])
                       => (out[1].id = StrOfObjectId(doc[1]._id))
                 /\ \A k \in DefaultedFields \ DOMAIN doc[1] : out[1][k] = Default(k)
                 /\ \A k \in DOMAIN doc[1] \ {"_id"} : out[1][k] = doc[1][k]

\* term is a substring of text, letters compared without their case
Contains(term, text) ==
    \E i \in 1..(Len(text) - Len(term) + 1) :
        \A k \in 1..Len(term) : Lower(term[k]) = Lower(text[i + k - 1])

\* the stored songs a search for the term is to return
Hits(search) ==
    {j \in DOMAIN songs :
        (search # None /\ search[1] # << >>)
        => \/ Contains(search[1], songs[j].title)
           \/ Contains(search[1], songs[j].artist)
           \/ Contains(search[1], songs[j].album)}

\* C12: song List(searchTerm) returns exactly the stored songs for which
\* searchTerm is a case-insensitive substring of title, artist or album, all
\* the stored songs when searchTerm is absent or empty, and never changes the
\* store.
C12_SongSearch ==
    \A q \in Procs :
        Finished(q, "get_songs")
        => /\ resp[q].status = 200
           /\ \A j \in DOMAIN songs :
                 (\E i \in DOMAIN resp[q].body : Names(resp[q].body[i].id, songs[j]))
                 <=> j \in Hits(req[q].search)
           /\ Len(resp[q].body) = Cardinality(Hits(req[q].search))
           /\ ~obs[q].wrote

\* C13: whenever AddSong(p, s) reports success, that request appended s to p's
\* song_ids, under any interleaving with Delete(p), RemoveSong(p, s) and other
\* AddSong requests: it never reports success when its update matched no
\* playlist because p was deleted between the existence check and the $push.
C13_AddSongAppended ==
    \A q \in Procs :
        ( /\ Finished(q, "add_song_to_playlist")
          /\ resp[q].status = 200 )
        => obs[q].wrote

\* every identifier in a playlist's song_ids and every favorite's song_id is
\* the "id" of a stored song
Referenced ==
    /\ \A i \in DOMAIN playlists : \A k \in DOMAIN playlists[i].song_ids :
          \E j \in DOMAIN songs : songs[j].id = playlists[i].song_ids[k]
    /\ \A i \in DOMAIN favorites :
          \E j \in DOMAIN songs : songs[j].id = favorites[i].song_id

\* no step removes or changes a stored song
SongsKept == Len(songs') >= Len(songs) /\ SubSeq(songs', 1, Len(songs)) = songs

\* a step of init_sample_data that inserts playlists finds their songs stored
PlaylistsAfterSongs ==
    \A q \in Procs :
        (pc[q] = "init_insert_playlists" /\ pc'[q] = "idle")
        => /\ Len(playlists') = Len(playlists) + Len(SamplePlaylists)
           /\ \A i \in (DOMAIN playlists') \ (DOMAIN playlists) :
                 \A k \in DOMAIN playlists'[i].song_ids :
                    \E j \in DOMAIN songs : songs[j].id = playlists'[i].song_ids[k]

\* init_sample_data arriving when there are songs inserts nothing
InitOnlyWhenEmpty ==
    \A q \in Procs :
        (req[q].op = "init_sample_data" /\ obs[q].pre.song)
        => (~InFlight(q) /\ ~obs[q].wrote
            /\ resp[q].body = Message("Data already initialized"))

\* C14: in server.py, from the empty store and under any interleaving of song
\* Create, playlist Create and Delete, AddSong, RemoveSong, favorite Add and
\* Remove and init-data, every identifier in a playlist's song_ids and every
\* favorite's song_id is that of a stored song in every reachable state; no
\* operation removes a song; init_sample_data inserts its sample songs before
\* the sample playlists that reference them and inserts nothing when the songs
\* collection is not empty.
C14_Integrity ==
    /\ [](Referenced /\ InitOnlyWhenEmpty)
    /\ [][SongsKept /\ PlaylistsAfterSongs]_vars

\* init_sample_data has inserted its songs and playlists, a favorite has been
\* added and a playlist references songs
C14_Witness ==
    /\ \E q \in Procs : Finished(q, "add_favorite") /\ resp[q].status = 200
    /\ Len(songs) >= Len(SampleSongs)
    /\ favorites # << >>
    /\ \E i \in DOMAIN playlists : playlists[i].song_ids # << >>

====
